---- MODULE Spec2Model ----
(***************************************************************************)
(* Streaming conversation state engine of Rosemary-App.                    *)
(*                                                                         *)
(*   - the Greenhouse store (src/unnamed/part_000): the conversation state *)
(*     and its actions, modelled as operators on the message list;         *)
(*   - the turn controller (ThreadView.onNew / onCancel in                  *)
(*     src/frontend/src/pages/ChatPage.tsx);                               *)
(*   - the SSE decoder (readSSEStream in the same file).                   *)
(*                                                                         *)
(* Message.createdAt is a timestamp no operation reads; it is left out.    *)
(* Message ids are <<"msg", n>> for generateId() (n is messageIdCounter;   *)
(* the Date.now() part adds nothing to uniqueness) and <<"loaded", i>>     *)
(* for the ids ChatPage gives to a fetched history.                        *)
(***************************************************************************)
EXTENDS Integers, Sequences, FiniteSets, TLC

VARIABLES
    store,              \* the Greenhouse store: [sessionId, messages, isRunning,
                        \*   totalMessageCount, hasMoreHistory]
    messageIdCounter,   \* module-level counter of generateId
    last,               \* the operation the last step performed, with its arguments
    steps,              \* number of calls the store driver has made (StoreSpec)
    turns,              \* the onNew invocations, in submit order: [pc, assistantId,
                        \*   view, request, log, snap, outcome]
    abortRef,           \* abortRef.current of the mounted ThreadView: 0 (null) or
                        \*   the turn whose AbortController it holds
    interrupts,         \* onCancel invocations awaiting POST /api/chat/interrupt
    route,              \* the :sessionId route parameter (Null on /chat)
    view,               \* number of the mounted ChatPage instance (key = route)
    mounted,            \* whether that instance renders its ThreadView
    loads,              \* session fetches in flight: [view, sessionId]
    acts,               \* number of user actions so far
    env,                \* name of the environment of this run (see Envs)
    stream,             \* the response body: the characters the backend sends
    consumed,           \* how many of them reader.read() has handed over
    buffer,             \* readSSEStream's buffer
    yielded,            \* the events readSSEStream has yielded, in order
    reader              \* the reader's lock: "locked" or "released"

ctlVars == <<turns, abortRef, interrupts, route, view, mounted, loads, acts, env>>
decVars == <<stream, consumed, buffer, yielded, reader>>
vars == <<store, messageIdCounter, last, steps,
          turns, abortRef, interrupts, route, view, mounted, loads, acts, env,
          stream, consumed, buffer, yielded, reader>>

Null == "null"
\* An optional value (an omitted argument, an absent property): None or Some(v).
None == <<>>
Some(v) == <<v>>

\* ------------------------------------------------------------------ bounds
\* Number of store calls the driver of StoreSpec makes.
MaxOps == 4
\* Runs of Spec that follow one stream closely: number of user actions
\* (submit, cancel, navigation) and of stream events dispatched.
MaxTurnActions == 2
MaxEvents == 3
\* Runs of Spec with overlapping turns, cancels and navigations: number of user
\* actions and of stream events dispatched, over all turns.
MaxUserActions == 3
MaxConcurrentEvents == 1
MaxCancelActions == 5
\* Runs of DecoderSpec: number of complete lines of the stream, and number of
\* characters one read may hand over.
MaxLines == 3
MaxChunk == 13

\* ------------------------------------------------------------- content parts
TextPart(text) == [type |-> "text", text |-> text]
ThinkingPart(thinking) == [type |-> "thinking", thinking |-> thinking]
ImagePart(image) == [type |-> "image", image |-> image]
\* A tool-call part as addToolCall builds it: no result, no isError yet.
ToolCallPart(toolCall) ==
    [type |-> "tool-call", toolCallId |-> toolCall.toolCallId,
     toolName |-> toolCall.toolName, args |-> toolCall.args,
     argsText |-> toolCall.argsText, result |-> None, isError |-> None]

Message(id, role, content) == [id |-> id, role |-> role, content |-> content]

generateId(counter) == <<"msg", counter + 1>>

initialState ==
    [sessionId |-> Null, messages |-> <<>>, isRunning |-> FALSE,
     totalMessageCount |-> 0, hasMoreHistory |-> FALSE]

\* Array.prototype.find on the message list: index of the first message with
\* this id, 0 when there is none.
FindMessage(msgs, messageId) ==
    IF \E i \in 1..Len(msgs) : msgs[i].id = messageId
    THEN CHOOSE i \in 1..Len(msgs) :
            /\ msgs[i].id = messageId
            /\ \A j \in 1..(i - 1) : msgs[j].id # messageId
    ELSE 0

\* Array.prototype.find on a content array: index of the first thinking part.
FindThinking(content) ==
    IF \E i \in 1..Len(content) : content[i].type = "thinking"
    THEN CHOOSE i \in 1..Len(content) :
            /\ content[i].type = "thinking"
            /\ \A j \in 1..(i - 1) : content[j].type # "thinking"
    ELSE 0

\* find() matching on the part type alone: the first tool call of the message.
FindToolCall_anyId(content, toolCallId) ==
    IF \E i \in 1..Len(content) : content[i].type = "tool-call"
    THEN CHOOSE i \in 1..Len(content) :
            /\ content[i].type = "tool-call"
            /\ \A j \in 1..(i - 1) : content[j].type # "tool-call"
    ELSE 0

\* Array.prototype.find: index of the first tool-call part with this toolCallId.
FindToolCall(content, toolCallId) ==
    IF \E i \in 1..Len(content) :
            content[i].type = "tool-call" /\ content[i].toolCallId = toolCallId
    THEN CHOOSE i \in 1..Len(content) :
            /\ content[i].type = "tool-call" /\ content[i].toolCallId = toolCallId
            /\ \A j \in 1..(i - 1) :
                  ~(content[j].type = "tool-call" /\ content[j].toolCallId = toolCallId)
    ELSE 0

\* ------------------------------------------------------------ store actions
\* Each operator gives the store state after the action applied to state s.
\* The id of a new message is generateId(), drawn by the caller.

\* Images of the attachments, in attachment order; other attachments give nothing.
RECURSIVE ImageParts(_)
ImageParts(attachments) ==
    IF attachments = <<>> THEN <<>>
    ELSE (IF Head(attachments).type = "image"
          THEN <<ImagePart(Head(attachments).image)>> ELSE <<>>)
         \o ImageParts(Tail(attachments))

\* addUserMessage that pushes the text part only when there is text.
addUserMessage_skipEmptyText(s, id, content, attachments) ==
    LET msgs == Append(s.messages,
                       Message(id, "user",
                               ImageParts(attachments)
                               \o (IF content = "" THEN <<>> ELSE <<TextPart(content)>>)))
    IN [s EXCEPT !.messages = msgs, !.totalMessageCount = Len(msgs)]

addUserMessage(s, id, content, attachments) ==
    LET msgs == Append(s.messages,
                       Message(id, "user",
                               ImageParts(attachments) \o <<TextPart(content)>>))
    IN [s EXCEPT !.messages = msgs, !.totalMessageCount = Len(msgs)]

addAssistantPlaceholder(s, id) ==
    LET msgs == Append(s.messages, Message(id, "assistant", <<>>))
    IN [s EXCEPT !.messages = msgs, !.totalMessageCount = Len(msgs)]

\* appendToAssistant that never extends: every call pushes a new text part.
appendToAssistant_alwaysPush(s, messageId, text) ==
    LET i == FindMessage(s.messages, messageId) IN
    IF i = 0 \/ s.messages[i].role # "assistant" THEN s
    ELSE [s EXCEPT !.messages[i].content = Append(@, TextPart(text))]

\* appendToAssistant that extends the most recent text part, wherever it is.
appendToAssistant_anyText(s, messageId, text) ==
    LET i == FindMessage(s.messages, messageId) IN
    IF i = 0 \/ s.messages[i].role # "assistant" THEN s
    ELSE LET c == s.messages[i].content
             texts == {k \in 1..Len(c) : c[k].type = "text"} IN
         IF texts # {}
         THEN LET n == CHOOSE k \in texts : \A j \in texts : j <= k
              IN [s EXCEPT !.messages[i].content[n].text = @ \o text]
         ELSE [s EXCEPT !.messages[i].content = Append(c, TextPart(text))]

appendToAssistant(s, messageId, text) ==
    LET i == FindMessage(s.messages, messageId) IN
    IF i = 0 \/ s.messages[i].role # "assistant" THEN s
    ELSE LET c == s.messages[i].content
             n == Len(c) IN
         IF n > 0 /\ c[n].type = "text"
         THEN [s EXCEPT !.messages[i].content[n].text = @ \o text]
         ELSE [s EXCEPT !.messages[i].content = Append(c, TextPart(text))]

\* appendThinking with the new part pushed at the end instead of unshifted.
appendThinking_push(s, messageId, thinking) ==
    LET i == FindMessage(s.messages, messageId) IN
    IF i = 0 \/ s.messages[i].role # "assistant" THEN s
    ELSE LET c == s.messages[i].content
             k == FindThinking(c) IN
         IF k # 0
         THEN [s EXCEPT !.messages[i].content[k].thinking = @ \o thinking]
         ELSE [s EXCEPT !.messages[i].content = Append(c, ThinkingPart(thinking))]

\* appendThinking that never looks for an existing part: always unshifts one.
appendThinking_alwaysUnshift(s, messageId, thinking) ==
    LET i == FindMessage(s.messages, messageId) IN
    IF i = 0 \/ s.messages[i].role # "assistant" THEN s
    ELSE [s EXCEPT !.messages[i].content = <<ThinkingPart(thinking)>> \o @]

appendThinking(s, messageId, thinking) ==
    LET i == FindMessage(s.messages, messageId) IN
    IF i = 0 \/ s.messages[i].role # "assistant" THEN s
    ELSE LET c == s.messages[i].content
             k == FindThinking(c) IN
         IF k # 0
         THEN [s EXCEPT !.messages[i].content[k].thinking = @ \o thinking]
         ELSE [s EXCEPT !.messages[i].content = <<ThinkingPart(thinking)>> \o c]

\* addToolCall without the role test.
addToolCall_anyRole(s, messageId, toolCall) ==
    LET i == FindMessage(s.messages, messageId) IN
    IF i = 0 THEN s
    ELSE [s EXCEPT !.messages[i].content = Append(@, ToolCallPart(toolCall))]

addToolCall(s, messageId, toolCall) ==
    LET i == FindMessage(s.messages, messageId) IN
    IF i = 0 \/ s.messages[i].role # "assistant" THEN s
    ELSE [s EXCEPT !.messages[i].content = Append(@, ToolCallPart(toolCall))]

\* updateToolResult that keeps a result without a tool call: it creates the
\* segment, with the result.
updateToolResult_upsert(s, messageId, toolCallId, result, isError) ==
    LET i == FindMessage(s.messages, messageId) IN
    IF i = 0 THEN s
    ELSE LET k == FindToolCall(s.messages[i].content, toolCallId)
             e == IF isError = None THEN Some(FALSE) ELSE isError IN
         IF k = 0
         THEN [s EXCEPT !.messages[i].content =
                   Append(@, [type |-> "tool-call", toolCallId |-> toolCallId,
                              toolName |-> "Bash", args |-> "{}", argsText |-> "{}",
                              result |-> Some(result), isError |-> e])]
         ELSE [s EXCEPT !.messages[i].content[k].result = Some(result),
                        !.messages[i].content[k].isError = e]

\* updateToolResult that writes the result into every tool call of the message.
updateToolResult_everyCall(s, messageId, toolCallId, result, isError) ==
    LET i == FindMessage(s.messages, messageId) IN
    IF i = 0 THEN s
    ELSE LET c == s.messages[i].content
             e == IF isError = None THEN Some(FALSE) ELSE isError IN
         IF FindToolCall(c, toolCallId) = 0 THEN s
         ELSE [s EXCEPT !.messages[i].content =
                   [k \in 1..Len(c) |->
                       IF c[k].type = "tool-call"
                       THEN [c[k] EXCEPT !.result = Some(result), !.isError = e]
                       ELSE c[k]]]

\* isError = None stands for an omitted (or undefined) argument: the
\* parameter's default, false, applies.
updateToolResult(s, messageId, toolCallId, result, isError) ==
    LET i == FindMessage(s.messages, messageId) IN
    IF i = 0 THEN s
    ELSE LET k == FindToolCall(s.messages[i].content, toolCallId) IN
         IF k = 0 THEN s
         ELSE [s EXCEPT !.messages[i].content[k].result = Some(result),
                        !.messages[i].content[k].isError =
                            IF isError = None THEN Some(FALSE) ELSE isError]

\* setMessages that leaves the count alone.
setMessages_keepCount(s, msgs) == [s EXCEPT !.messages = msgs]

\* [...messages] copies the array; a list is a value here, its copy is the same
\* value.
setMessages(s, msgs) ==
    [s EXCEPT !.messages = msgs, !.totalMessageCount = Len(msgs)]

setSessionId(s, sid) == [s EXCEPT !.sessionId = sid]

setRunning(s, running) == [s EXCEPT !.isRunning = running]

\* set(initialState): a shallow merge of a partial that names every state field.
reset(s) == initialState

\* loadSession that leaves hasMoreHistory alone when no total is given.
loadSession_keepMore(s, sid, msgs, totalCount) ==
    [s EXCEPT !.sessionId = sid,
              !.messages = msgs,
              !.totalMessageCount =
                  IF totalCount = None THEN Len(msgs) ELSE totalCount[1],
              !.hasMoreHistory =
                  IF totalCount = None THEN @
                  ELSE totalCount[1] > Len(msgs)]

\* loadSession that compares with >=.
loadSession_atLeast(s, sid, msgs, totalCount) ==
    [s EXCEPT !.sessionId = sid,
              !.messages = msgs,
              !.totalMessageCount =
                  IF totalCount = None THEN Len(msgs) ELSE totalCount[1],
              !.hasMoreHistory =
                  IF totalCount = None THEN FALSE
                  ELSE IF totalCount[1] = 0 THEN FALSE
                  ELSE totalCount[1] >= Len(msgs)]

\* totalCount = None stands for an omitted argument. `totalCount ??` falls
\* back on undefined only; the truthiness test `totalCount ?` also fails for 0.
loadSession(s, sid, msgs, totalCount) ==
    [s EXCEPT !.sessionId = sid,
              !.messages = msgs,
              !.totalMessageCount =
                  IF totalCount = None THEN Len(msgs) ELSE totalCount[1],
              !.hasMoreHistory =
                  IF totalCount = None THEN FALSE
                  ELSE IF totalCount[1] = 0 THEN FALSE
                  ELSE totalCount[1] > Len(msgs)]

\* ------------------------------------------------------------ input domains
\* Payloads of text-delta, text and thinking-delta events.
Payloads == {"a", "b"}
ToolCallIds == {"k1", "k2"}
\* The toolCall argument of addToolCall (Omit<ToolCallPart, "type">).
ToolCall(k) == [toolCallId |-> k, toolName |-> "Bash", args |-> "{}", argsText |-> "{}"]
SessionIds == {"s1"}
\* An id generateId() never returns: a reference to a message that never existed.
StaleId == <<"msg", 0>>

\* The inputs of a run: the events the backend may send, the texts and the
\* attachments the composer may submit, how many user actions and events, and
\* whether the user leaves the conversation for another one.
Environment(name, events, texts, attachments, maxActs, maxEvents, navigates) ==
    [name |-> name, events |-> events, texts |-> texts, attachments |-> attachments,
     maxActs |-> maxActs, maxEvents |-> maxEvents, navigates |-> navigates]

\* Attachment lists of the composer: images (data URLs) and uploaded files.
ImageAtt(d) == [type |-> "image", image |-> d]
FileAtt(f) == [type |-> "file", path |-> f, filename |-> f]
AttachmentLists ==
    {<<>>, <<ImageAtt("i1")>>, <<FileAtt("f1"), ImageAtt("i2"), ImageAtt("i1")>>}

\* Histories as ChatPage converts them from GET /api/sessions/:id: ids
\* loaded-0, loaded-1, ...; a bare string content wrapped into one text part, an
\* array content taken as the backend sent it.
Histories ==
    {<<>>,
     <<Message(<<"loaded", 0>>, "user", <<TextPart("a")>>)>>,
     <<Message(<<"loaded", 0>>, "user", <<TextPart("a")>>),
       Message(<<"loaded", 1>>, "assistant",
               <<TextPart("b"), ThinkingPart("a"), ThinkingPart("b"),
                 ImagePart("i1")>>)>>}

RECURSIVE Reverse(_)
Reverse(q) == IF q = <<>> THEN <<>> ELSE Append(Reverse(Tail(q)), Head(q))

\* Lists an external owner of the canonical list hands to setMessages: the
\* current list cut short (a superseded tail) or reordered.
ReplacementLists(msgs) ==
    {SubSeq(msgs, 1, n) : n \in 0..Len(msgs)} \cup {Reverse(msgs)}

MessageIds(msgs) == {msgs[i].id : i \in 1..Len(msgs)}

\* ------------------------------------------------------------- store driver
\* StoreSpec: the store's actions called in any order with any arguments, as
\* any importer of the store can ("The store can be updated from anywhere").

Call(s, op) ==
    /\ steps < MaxOps
    /\ steps' = steps + 1
    /\ store' = s
    /\ last' = op
    /\ UNCHANGED <<ctlVars, decVars>>

DrvAddUserMessage ==
    \E content \in {"", "a"}, atts \in AttachmentLists :
        /\ Call(addUserMessage(store, generateId(messageIdCounter), content, atts),
                [op |-> "addUserMessage", id |-> generateId(messageIdCounter),
                 text |-> content, attachments |-> atts])
        /\ messageIdCounter' = messageIdCounter + 1

DrvAddAssistantPlaceholder ==
    /\ Call(addAssistantPlaceholder(store, generateId(messageIdCounter)),
            [op |-> "addAssistantPlaceholder", id |-> generateId(messageIdCounter)])
    /\ messageIdCounter' = messageIdCounter + 1

DrvAppendToAssistant ==
    \E id \in MessageIds(store.messages) \cup {StaleId}, text \in Payloads :
        /\ Call(appendToAssistant(store, id, text),
                [op |-> "appendToAssistant", id |-> id, text |-> text])
        /\ UNCHANGED messageIdCounter

DrvAppendThinking ==
    \E id \in MessageIds(store.messages) \cup {StaleId}, text \in Payloads :
        /\ Call(appendThinking(store, id, text),
                [op |-> "appendThinking", id |-> id, text |-> text])
        /\ UNCHANGED messageIdCounter

DrvAddToolCall ==
    \E id \in MessageIds(store.messages) \cup {StaleId}, k \in ToolCallIds :
        /\ Call(addToolCall(store, id, ToolCall(k)),
                [op |-> "addToolCall", id |-> id, toolCallId |-> k])
        /\ UNCHANGED messageIdCounter

DrvUpdateToolResult ==
    \E id \in MessageIds(store.messages) \cup {StaleId}, k \in ToolCallIds,
       isError \in {None, Some(TRUE)} :
        /\ Call(updateToolResult(store, id, k, "r", isError),
                [op |-> "updateToolResult", id |-> id, toolCallId |-> k,
                 isError |-> isError])
        /\ UNCHANGED messageIdCounter

DrvSetMessages ==
    \E msgs \in ReplacementLists(store.messages) :
        /\ Call(setMessages(store, msgs), [op |-> "setMessages", messages |-> msgs])
        /\ UNCHANGED messageIdCounter

DrvSetSessionId ==
    \E sid \in SessionIds \cup {Null} :
        /\ Call(setSessionId(store, sid), [op |-> "setSessionId", sessionId |-> sid])
        /\ UNCHANGED messageIdCounter

DrvSetRunning ==
    \E running \in BOOLEAN :
        /\ Call(setRunning(store, running), [op |-> "setRunning", running |-> running])
        /\ UNCHANGED messageIdCounter

DrvReset ==
    /\ Call(reset(store), [op |-> "reset"])
    /\ UNCHANGED messageIdCounter

DrvLoadSession ==
    \E sid \in SessionIds, msgs \in Histories,
       totalCount \in {None, Some(0), Some(1), Some(3)} :
        /\ Call(loadSession(store, sid, msgs, totalCount),
                [op |-> "loadSession", sessionId |-> sid, messages |-> msgs,
                 totalCount |-> totalCount])
        /\ UNCHANGED messageIdCounter

InitStore ==
    /\ store = initialState
    /\ messageIdCounter = 0
    /\ last = [op |-> "init"]
    /\ steps = 0
    /\ turns = <<>>
    /\ abortRef = 0
    /\ interrupts = 0
    /\ route = Null
    /\ view = 1
    /\ mounted = TRUE
    /\ loads = {}
    /\ acts = 0

\* No response body is being read.
InitDecoder ==
    /\ stream = <<>>
    /\ consumed = 0
    /\ buffer = <<>>
    /\ yielded = <<>>
    /\ reader = "released"

\* The store driver runs in one environment.
StoreInit == InitStore /\ InitDecoder /\ env = "store"

StoreNext ==
    \/ DrvAddUserMessage
    \/ DrvAddAssistantPlaceholder
    \/ DrvAppendToAssistant
    \/ DrvAppendThinking
    \/ DrvAddToolCall
    \/ DrvUpdateToolResult
    \/ DrvSetMessages
    \/ DrvSetSessionId
    \/ DrvSetRunning
    \/ DrvReset
    \/ DrvLoadSession

StoreSpec == StoreInit /\ [][StoreNext]_vars

\* ------------------------------------------------------- store-level claims
\* Messages created by addUserMessage / addAssistantPlaceholder carry a
\* generateId() id.
IsGenerated(id) == id[1] = "msg"
Resolves(msgs, id) == FindMessage(msgs, id) # 0
MessageOf(msgs, id) == msgs[FindMessage(msgs, id)]
ResolvesToAssistant(msgs, id) ==
    Resolves(msgs, id) /\ MessageOf(msgs, id).role = "assistant"
ThinkingIndexes(content) == {i \in 1..Len(content) : content[i].type = "thinking"}
HasToolCall(content, k) ==
    \E i \in 1..Len(content) : content[i].type = "tool-call" /\ content[i].toolCallId = k

\* ------------------------------------------------------------ stream events
\* A value readSSEStream yields: whatever JSON.parse gave, cast to StreamEvent.
\* json tells an object from the null and scalar values a frame may also hold;
\* the other fields are the properties the dispatch reads (type, and data
\* flattened into text / toolCallId / isError).
Ev(type, text, k, isError) ==
    [json |-> "object", type |-> type, text |-> text, toolCallId |-> k,
     isError |-> isError]
JsonNull == [json |-> "null", type |-> "", text |-> "", toolCallId |-> "", isError |-> None]
JsonScalar == [json |-> "scalar", type |-> "", text |-> "", toolCallId |-> "", isError |-> None]

TextDelta(p) == Ev("text-delta", p, "", None)
ThinkingDelta(p) == Ev("thinking-delta", p, "", None)
ToolCallEv(k) == Ev("tool-call", "", k, None)
ToolResultEv(k, isError) == Ev("tool-result", "", k, isError)
Bare(type) == Ev(type, "", "", None)

\* The events a backend may send, by family. "ping" is a type the client does
\* not know.
TextEvents ==
    {TextDelta(p) : p \in Payloads} \cup {Ev("text", "a", "", None)}
    \cup {ThinkingDelta(p) : p \in Payloads}
ToolEvents ==
    {TextDelta("a"), ToolCallEv("k1"), ToolCallEv("k2"),
     ToolResultEv("k1", None), ToolResultEv("k1", Some(TRUE))}
NoticeEvents ==
    {TextDelta("a"), Bare("context"), Bare("error"), Bare("archive-error"), Bare("done")}
OddEvents ==
    {TextDelta("a"), Ev("session-id", "s1", "", None), Bare("ping"), JsonNull, JsonScalar}
CoreEvents == {TextDelta("a"), Ev("session-id", "s1", "", None)}
Events == TextEvents \cup ToolEvents \cup NoticeEvents \cup OddEvents \cup CoreEvents

\* Reading event.type of null throws a TypeError; of a scalar it is undefined.
Throws(ev) == ev.json = "null"

\* A switch whose error case writes the error into the assistant message.
Dispatch_errorShown(s, assistantId, ev) ==
    CASE ev.type = "thinking-delta" -> appendThinking(s, assistantId, ev.text)
      [] ev.type = "text-delta"     -> appendToAssistant(s, assistantId, ev.text)
      [] ev.type = "text"           -> appendToAssistant(s, assistantId, ev.text)
      [] ev.type = "tool-call"      -> addToolCall(s, assistantId, ToolCall(ev.toolCallId))
      [] ev.type = "tool-result"    ->
            updateToolResult(s, assistantId, ev.toolCallId, "r", ev.isError)
      [] ev.type = "session-id"     -> setSessionId(s, ev.text)
      [] ev.type = "error"          -> appendToAssistant(s, assistantId, "Error")
      [] OTHER                      -> s

\* The switch of onNew's dispatch loop: the store after one event. The cases
\* context, error, archive-error and done, and a type with no case, call no
\* store action (they log, or alert).
Dispatch(s, assistantId, ev) ==
    CASE ev.type = "thinking-delta" -> appendThinking(s, assistantId, ev.text)
      [] ev.type = "text-delta"     -> appendToAssistant(s, assistantId, ev.text)
      [] ev.type = "text"           -> appendToAssistant(s, assistantId, ev.text)
      [] ev.type = "tool-call"      -> addToolCall(s, assistantId, ToolCall(ev.toolCallId))
      [] ev.type = "tool-result"    ->
            updateToolResult(s, assistantId, ev.toolCallId, "r", ev.isError)
      [] ev.type = "session-id"     -> setSessionId(s, ev.text)
      [] OTHER                      -> s

\* -------------------------------------------------------------- SSE decoder
\* Texts are sequences of characters. The lines a backend sends:
TextLine ==
    <<"d", "a", "t", "a", ":", " ", "{", "\"", "t", "y", "p", "e", "\"", ":", "\"",
      "t", "e", "x", "t", "\"", ",", "\"", "d", "a", "t", "a", "\"", ":", "\"", "a",
      "\"", "}">>
DoneLine ==
    <<"d", "a", "t", "a", ":", " ", "[", "D", "O", "N", "E", "]">>
BadLine ==
    <<"d", "a", "t", "a", ":", " ", "n", "o", "t", "-", "j", "s", "o", "n">>
NullLine ==
    <<"d", "a", "t", "a", ":", " ", "n", "u", "l", "l">>
CommentLine ==
    <<":">>
EmptyLine == <<>>
Lines == {TextLine, DoneLine, BadLine, NullLine, CommentLine, EmptyLine}

DataPrefix ==
    <<"d", "a", "t", "a", ":", " ">>
DoneSentinel ==
    <<"[", "D", "O", "N", "E", "]">>

\* JSON.parse on the payloads above: the value, or None for a SyntaxError.
\* Every other text this model can cut out of a stream is a fragment of these
\* lines, and no such fragment is valid JSON.
ParseJSON(data) ==
    IF data = SubSeq(TextLine, 7, Len(TextLine)) THEN Some(Ev("text", "a", "", None))
    ELSE IF data = SubSeq(NullLine, 7, Len(NullLine)) THEN Some(JsonNull)
    ELSE None

\* text.split("\n"): the pieces between the newlines; always at least one.
RECURSIVE Split(_)
Split(text) ==
    IF \E i \in 1..Len(text) : text[i] = "\n"
    THEN LET i == CHOOSE j \in 1..Len(text) :
                     text[j] = "\n" /\ \A k \in 1..(j - 1) : text[k] # "\n"
         IN <<SubSeq(text, 1, i - 1)>> \o Split(SubSeq(text, i + 1, Len(text)))
    ELSE <<text>>

StartsWith(line, prefix) ==
    Len(line) >= Len(prefix) /\ SubSeq(line, 1, Len(prefix)) = prefix

\* The body of `for (const line of lines)`: what one line yields, and whether
\* an exception leaves the generator.
DecodeLine_noCatch(line) ==
    IF StartsWith(line, DataPrefix)
    THEN LET data == SubSeq(line, Len(DataPrefix) + 1, Len(line)) IN
         IF data = DoneSentinel THEN [yield |-> <<Bare("done")>>, throws |-> FALSE]
         ELSE IF ParseJSON(data) = None THEN [yield |-> <<>>, throws |-> TRUE]
         ELSE [yield |-> ParseJSON(data), throws |-> FALSE]
    ELSE [yield |-> <<>>, throws |-> FALSE]

\* A loop body without the [DONE] test: every payload goes to JSON.parse.
DecodeLine_noSentinel(line) ==
    IF StartsWith(line, DataPrefix)
    THEN LET data == SubSeq(line, Len(DataPrefix) + 1, Len(line)) IN
         IF ParseJSON(data) = None THEN [yield |-> <<>>, throws |-> FALSE]
         ELSE [yield |-> ParseJSON(data), throws |-> FALSE]
    ELSE [yield |-> <<>>, throws |-> FALSE]

\* A loop body that rejects a line without the data prefix.
DecodeLine_strict(line) ==
    IF StartsWith(line, DataPrefix)
    THEN LET data == SubSeq(line, Len(DataPrefix) + 1, Len(line)) IN
         IF data = DoneSentinel THEN [yield |-> <<Bare("done")>>, throws |-> FALSE]
         ELSE IF ParseJSON(data) = None THEN [yield |-> <<>>, throws |-> FALSE]
         ELSE [yield |-> ParseJSON(data), throws |-> FALSE]
    ELSE [yield |-> <<>>, throws |-> TRUE]

DecodeLine(line) ==
    IF StartsWith(line, DataPrefix)
    THEN LET data == SubSeq(line, Len(DataPrefix) + 1, Len(line)) IN
         IF data = DoneSentinel THEN [yield |-> <<Bare("done")>>, throws |-> FALSE]
         ELSE IF ParseJSON(data) = None THEN [yield |-> <<>>, throws |-> FALSE]
         ELSE [yield |-> ParseJSON(data), throws |-> FALSE]
    ELSE [yield |-> <<>>, throws |-> FALSE]

\* The for loop over the lines of one chunk: the events yielded, in order, up
\* to the line that throws, if one does.
RECURSIVE RunLines(_)
RunLines(lines) ==
    IF lines = <<>> THEN [yield |-> <<>>, throws |-> FALSE]
    ELSE LET d == DecodeLine(Head(lines)) IN
         IF d.throws THEN d
         ELSE LET r == RunLines(Tail(lines)) IN
              [yield |-> d.yield \o r.yield, throws |-> r.throws]

\* buffer = lines.pop() || "": the piece after the last newline.
NextBuffer_dropped(pieces) == <<>>

NextBuffer(pieces) == pieces[Len(pieces)]

\* A decoder that treats what is left in the buffer at the end as a last line.
AtEnd_flush(buf) == IF buf = <<>> THEN <<>> ELSE <<buf>>

\* `if (done) break`: the lines decoded when read() reports the end of the
\* stream. The loop is left before the buffer is looked at: none.
AtEnd(buf) == <<>>

Min(a, b) == IF a < b THEN a ELSE b

\* A stream: complete lines, each ended by a newline, then possibly a fragment
\* the backend never terminated.
RECURSIVE Terminated(_)
Terminated(lines) ==
    IF lines = <<>> THEN <<>> ELSE Head(lines) \o <<"\n">> \o Terminated(Tail(lines))

RECURSIVE SeqsUpTo(_, _)
SeqsUpTo(S, n) ==
    IF n = 0 THEN {<<>>}
    ELSE LET shorter == SeqsUpTo(S, n - 1)
         IN shorter \cup {Append(q, x) : q \in shorter, x \in S}

\* MaxLines counts the unterminated fragment as a line.
Streams ==
    {Terminated(ls) : ls \in SeqsUpTo(Lines, MaxLines)}
    \cup {Terminated(ls) \o tail : ls \in SeqsUpTo(Lines, MaxLines - 1),
                                    tail \in {DoneLine, TextLine}}

\* ---------------------------------------------------------- turn controller
\* What the composer hands to onNew.
SubmitTexts == {"", " ", "a"}
ComposerAttachments ==
    {<<>>, <<ImageAtt("i1")>>, <<FileAtt("f1")>>,
     <<FileAtt("f1"), ImageAtt("i2"), ImageAtt("i1")>>}

\* The runs explored. A run follows either one family of stream events closely
\* (few user actions, plain submits, mostly within one conversation), or the
\* composer's inputs, or user actions of every kind (cancels, navigations)
\* over short streams, or more submits and cancels within one conversation.
Envs ==
    {Environment("text", TextEvents, {"a"}, {<<>>}, MaxTurnActions, MaxEvents, FALSE),
     Environment("tools", ToolEvents, {"a"}, {<<>>}, MaxTurnActions, MaxEvents, FALSE),
     Environment("notices", NoticeEvents, {"a"}, {<<>>}, MaxTurnActions, MaxEvents, FALSE),
     Environment("odd", OddEvents, {"a"}, {<<>>}, MaxTurnActions, MaxEvents, TRUE),
     Environment("inputs", {TextDelta("a")}, SubmitTexts, ComposerAttachments,
                 MaxTurnActions, 1, TRUE),
     Environment("concurrent", CoreEvents, {"a"}, {<<>>},
                 MaxUserActions, MaxConcurrentEvents, TRUE),
     Environment("cancels", {TextDelta("a")}, {"a"}, {<<>>},
                 MaxCancelActions, MaxConcurrentEvents, FALSE)}
\* The environment of the current run.
Env == CHOOSE e \in Envs : e.name = env

\* text.trim() is empty (on SubmitTexts and the texts assembled from them).
Blank(text) == text \in {"", " "}

IsImage(a) == a.type = "image"
IsFile(a) == a.type = "file"

RECURSIVE JoinLines(_)
JoinLines(lines) ==
    IF lines = <<>> THEN ""
    ELSE IF Len(lines) = 1 THEN lines[1]
    ELSE lines[1] \o "\n" \o JoinLines(Tail(lines))

\* The reference lines of the uploaded files, in attachment order.
FileRefs(attachments) ==
    LET files == SelectSeq(attachments, IsFile)
    IN [i \in 1..Len(files) |-> "Kylee shared a file: " \o files[i].path]

\* The text of the turn: the file references prepended to the user's text.
AssembleText(text, attachments) ==
    LET refs == FileRefs(attachments) IN
    IF Len(refs) > 0
    THEN IF ~Blank(text) THEN JoinLines(refs) \o "\n\n" \o text ELSE JoinLines(refs)
    ELSE text

\* backendContent: the text part, if the text is not blank, then one part per
\* image (the media type and the base64 data cut out of its data URL).
BackendContent(text, images) ==
    (IF ~Blank(text) THEN <<[type |-> "text", text |-> text]>> ELSE <<>>)
    \o [i \in 1..Len(images) |-> [type |-> "image", text |-> images[i].image]]

\* A body whose content is always the array of parts.
RequestBody_alwaysArray(sid, text, images) ==
    [sessionId |-> sid,
     content |-> [kind |-> "array", text |-> "", parts |-> BackendContent(text, images)]]

\* The JSON body of POST /api/chat.
RequestBody(sid, text, images) ==
    LET bc == BackendContent(text, images) IN
    [sessionId |-> sid,
     content |-> IF Len(bc) = 1 /\ bc[1].type = "text"
                 THEN [kind |-> "string", text |-> text, parts |-> <<>>]
                 ELSE [kind |-> "array", text |-> "", parts |-> bc]]

RECURSIVE TotalEvents(_)
TotalEvents(ts) == IF ts = <<>> THEN 0 ELSE Len(Head(ts).log) + TotalEvents(Tail(ts))

InFlight(t) == turns[t].pc \in {"fetching", "streaming", "aborted"}

\* A rejected promise of an aborted request is settled in the microtasks of the
\* task that called abort(): the aborted turn's catch and finally run before
\* any other task (a user action, a response, a chunk).
NoPendingAbort == \A t \in 1..Len(turns) : turns[t].pc # "aborted"

ContentOf(s, id) ==
    IF Resolves(s.messages, id) THEN Some(MessageOf(s.messages, id).content) ELSE None

\* finally { abortRef.current = null; setRunning(false) }: the ref is the one of
\* the ThreadView instance that started the turn.
Finalize_keepRunning(t, s, outcome) ==
    /\ store' = s
    /\ abortRef' = IF turns[t].view = view THEN 0 ELSE abortRef
    /\ turns' = [turns EXCEPT ![t].pc = "ended", ![t].outcome = outcome]

Finalize(t, s, outcome) ==
    /\ store' = setRunning(s, FALSE)
    /\ abortRef' = IF turns[t].view = view THEN 0 ELSE abortRef
    /\ turns' = [turns EXCEPT ![t].pc = "ended", ![t].outcome = outcome]

\* catch (error) of a non-abort error, then finally.
Fail_silent(t, message) == Finalize(t, store, "failed")

Fail(t, message) ==
    Finalize(t, appendToAssistant(store, turns[t].assistantId, "Error: " \o message),
             "failed")

\* catch (error) of an AbortError (nothing is shown), then finally.
CatchAbort_asError(t) == Fail(t, "The operation was aborted")

CatchAbort(t) == Finalize(t, store, "cancelled")

\* if (!text.trim() && imageAttachments.length === 0) return;
Dropped_textOnly(text, images) == Blank(text)

Dropped(text, images) == Blank(text) /\ Len(images) = 0

\* The store calls of onNew before the request: with the placeholder first.
Commit_placeholderFirst(s, userId, assistantId, text, images) ==
    setRunning(addUserMessage(addAssistantPlaceholder(s, assistantId),
                              userId, text, images),
               TRUE)

\* addUserMessage(text, storeAttachments); addAssistantPlaceholder();
\* setRunning(true).
Commit(s, userId, assistantId, text, images) ==
    setRunning(addAssistantPlaceholder(addUserMessage(s, userId, text, images),
                                       assistantId),
               TRUE)

\* onNew up to its first await (the fetch).
Submit ==
    /\ NoPendingAbort
    /\ mounted /\ ~store.isRunning
    /\ acts < Env.maxActs
    /\ \E input \in Env.texts, attachments \in Env.attachments :
        LET text == AssembleText(input, attachments)
            images == SelectSeq(attachments, IsImage)
            userId == generateId(messageIdCounter)
            assistantId == generateId(messageIdCounter + 1)
        IN IF Dropped(text, images)
           THEN /\ last' = [op |-> "submit", accepted |-> FALSE,
                            text |-> input, attachments |-> attachments]
                /\ UNCHANGED <<store, messageIdCounter, turns, abortRef>>
           ELSE /\ store' = Commit(store, userId, assistantId, text, images)
                /\ messageIdCounter' = messageIdCounter + 2
                /\ turns' = Append(turns,
                       [pc |-> "fetching", assistantId |-> assistantId, view |-> view,
                        request |-> RequestBody(store.sessionId, text, images),
                        log |-> <<>>, snap |-> None, outcome |-> "none"])
                /\ abortRef' = Len(turns) + 1
                /\ last' = [op |-> "submit", accepted |-> TRUE, turn |-> Len(turns) + 1,
                            text |-> input, attachments |-> attachments]
    /\ acts' = acts + 1
    /\ UNCHANGED <<steps, interrupts, route, view, mounted, loads, env, decVars>>

\* The fetch of /api/chat settles: a response with a body, a non-ok status, a
\* response without a body, or a network failure.
Response ==
    /\ NoPendingAbort
    /\ \E t \in 1..Len(turns), r \in {"ok", "status", "nobody", "network"} :
        /\ turns[t].pc = "fetching"
        /\ CASE r = "ok" ->
                  /\ turns' = [turns EXCEPT ![t].pc = "streaming"]
                  /\ UNCHANGED <<store, abortRef>>
             [] r = "status" -> Fail(t, "API error: 500")
             [] r = "nobody" -> Fail(t, "No response body")
             [] r = "network" -> Fail(t, "Failed to fetch")
        /\ last' = [op |-> "response", turn |-> t, result |-> r]
    /\ UNCHANGED <<messageIdCounter, steps, interrupts, route, view, mounted, loads, acts, env, decVars>>

\* One event yielded by readSSEStream and the body of the for-await loop.
StreamEvent ==
    /\ NoPendingAbort
    /\ TotalEvents(turns) < Env.maxEvents
    /\ \E t \in 1..Len(turns), ev \in Env.events :
        /\ turns[t].pc = "streaming"
        /\ IF Throws(ev)
           THEN /\ store' = setRunning(
                               appendToAssistant(store, turns[t].assistantId,
                                   "Error: Cannot read properties of null"),
                               FALSE)
                /\ abortRef' = IF turns[t].view = view THEN 0 ELSE abortRef
                /\ turns' = [turns EXCEPT ![t].pc = "ended", ![t].outcome = "failed",
                                          ![t].log = Append(@, ev)]
           ELSE /\ store' = Dispatch(store, turns[t].assistantId, ev)
                /\ turns' = [turns EXCEPT ![t].log = Append(@, ev)]
                /\ UNCHANGED abortRef
        /\ last' = [op |-> "event", turn |-> t, event |-> ev]
    /\ UNCHANGED <<messageIdCounter, steps, interrupts, route, view, mounted, loads, acts, env, decVars>>

\* reader.read() gives done: the loop is left, finally runs.
StreamEnd ==
    /\ NoPendingAbort
    /\ \E t \in 1..Len(turns) :
        /\ turns[t].pc = "streaming"
        /\ Finalize(t, store, "completed")
        /\ last' = [op |-> "end", turn |-> t]
    /\ UNCHANGED <<messageIdCounter, steps, interrupts, route, view, mounted, loads, acts, env, decVars>>

\* reader.read() rejects with a network error.
StreamFailure ==
    /\ NoPendingAbort
    /\ \E t \in 1..Len(turns) :
        /\ turns[t].pc = "streaming"
        /\ Fail(t, "network error")
        /\ last' = [op |-> "failure", turn |-> t]
    /\ UNCHANGED <<messageIdCounter, steps, interrupts, route, view, mounted, loads, acts, env, decVars>>

\* onCancel up to its await: abort the controller the ref holds, clear the ref,
\* send the interrupt request. (snap keeps, for every turn in flight at its
\* first cancel, what the turn had done by then.)
Cancel ==
    /\ NoPendingAbort
    /\ mounted /\ store.isRunning
    /\ acts < Env.maxActs
    /\ turns' = [t \in 1..Len(turns) |->
                    IF InFlight(t)
                    THEN [turns[t] EXCEPT
                            !.pc = IF t = abortRef THEN "aborted" ELSE @,
                            !.snap = IF @ = None
                                     THEN Some([content |-> ContentOf(store, turns[t].assistantId),
                                                log |-> turns[t].log,
                                                pc |-> turns[t].pc])
                                     ELSE @]
                    ELSE turns[t]]
    /\ abortRef' = 0
    /\ interrupts' = interrupts + 1
    /\ acts' = acts + 1
    /\ last' = [op |-> "cancel", turn |-> abortRef]
    /\ UNCHANGED <<store, messageIdCounter, steps, route, view, mounted, loads, env, decVars>>

\* The aborted fetch or read rejects with an AbortError: catch (no message),
\* then finally.
AbortDelivered ==
    /\ \E t \in 1..Len(turns) :
        /\ turns[t].pc = "aborted"
        /\ CatchAbort(t)
        /\ last' = [op |-> "aborted", turn |-> t]
    /\ UNCHANGED <<messageIdCounter, steps, interrupts, route, view, mounted, loads, acts, env, decVars>>

\* The interrupt request of an onCancel settles (either way): setRunning(false).
InterruptSettled ==
    /\ NoPendingAbort
    /\ interrupts > 0
    /\ \E ok \in BOOLEAN :
        last' = [op |-> "interrupt", ok |-> ok]
    /\ store' = setRunning(store, FALSE)
    /\ interrupts' = interrupts - 1
    /\ UNCHANGED <<messageIdCounter, steps, turns, abortRef, route, view, mounted, loads, acts, env, decVars>>

\* "New chat": the route loses its sessionId, ChatPage is remounted under the
\* key "new" with a fresh ThreadView (and a fresh abortRef), its effect resets
\* the store.
NavigateNew ==
    /\ NoPendingAbort
    /\ Env.navigates
    /\ route # Null
    /\ acts < Env.maxActs
    /\ route' = Null
    /\ view' = view + 1
    /\ mounted' = TRUE
    /\ abortRef' = 0
    /\ store' = reset(store)
    /\ acts' = acts + 1
    /\ last' = [op |-> "reset"]
    /\ UNCHANGED <<messageIdCounter, steps, turns, interrupts, loads, env, decVars>>

\* A session of the sidebar is clicked: ChatPage is remounted under the key of
\* the session, shows "Loading session..." and fetches the session.
NavigateSession ==
    /\ NoPendingAbort
    /\ Env.navigates
    /\ acts < Env.maxActs
    /\ \E sid \in SessionIds :
        /\ route # sid
        /\ route' = sid
        /\ loads' = loads \cup {[view |-> view + 1, sessionId |-> sid]}
        /\ last' = [op |-> "navigate", sessionId |-> sid]
    /\ view' = view + 1
    /\ mounted' = FALSE
    /\ abortRef' = 0
    /\ acts' = acts + 1
    /\ UNCHANGED <<store, messageIdCounter, steps, turns, interrupts, env, decVars>>

\* The session fetch answers: loadSession(sessionId, messages), and the
\* instance that asked, if still mounted, renders its ThreadView.
SessionLoaded ==
    /\ NoPendingAbort
    /\ \E l \in loads, msgs \in Histories :
        /\ store' = loadSession(store, l.sessionId, msgs, None)
        /\ loads' = loads \ {l}
        /\ mounted' = IF l.view = view THEN TRUE ELSE mounted
        /\ last' = [op |-> "loadSession", sessionId |-> l.sessionId,
                    messages |-> msgs, totalCount |-> None]
    /\ UNCHANGED <<messageIdCounter, steps, turns, abortRef, interrupts, route, view, acts, env, decVars>>

\* The session fetch fails: the instance shows the error, nothing is loaded.
SessionLoadFailed ==
    /\ NoPendingAbort
    /\ \E l \in loads :
        /\ loads' = loads \ {l}
        /\ last' = [op |-> "loadFailed", sessionId |-> l.sessionId]
    /\ UNCHANGED <<store, messageIdCounter, steps, turns, abortRef, interrupts,
                   route, view, mounted, acts, env, decVars>>

\* The page opened on /chat: the store as created, the ThreadView rendered.
Init == InitStore /\ InitDecoder /\ env \in {e.name : e \in Envs}

Next ==
    \/ Submit
    \/ Response
    \/ StreamEvent
    \/ StreamEnd
    \/ StreamFailure
    \/ Cancel
    \/ AbortDelivered
    \/ InterruptSettled
    \/ NavigateNew
    \/ NavigateSession
    \/ SessionLoaded
    \/ SessionLoadFailed

Spec == Init /\ [][Next]_vars

\* The rejection of an aborted fetch or read is delivered to the aborted turn
\* in the microtasks of the task that called abort(): it always is. Nothing
\* makes a response, a chunk or the answer to the interrupt request arrive.
LiveSpec == Spec /\ WF_vars(AbortDelivered)

\* ------------------------------------------------- one turn, stream to store
\* The for-await loop of onNew over the events one pass of readSSEStream
\* yields: each event is taken and dispatched before the next line is decoded;
\* an event whose dispatch throws ends the loop. Gives the store, the events
\* taken and whether the loop was left by an exception.
RECURSIVE ForAwait(_, _, _)
ForAwait(s, assistantId, evs) ==
    IF evs = <<>> THEN [store |-> s, log |-> <<>>, thrown |-> FALSE]
    ELSE IF Throws(Head(evs)) THEN [store |-> s, log |-> <<Head(evs)>>, thrown |-> TRUE]
    ELSE LET r == ForAwait(Dispatch(s, assistantId, Head(evs)), assistantId, Tail(evs))
         IN [store |-> r.store, log |-> <<Head(evs)>> \o r.log, thrown |-> r.thrown]

\* A loop that takes the events of a pass last first.
Consume_reversed(s, assistantId, evs) == ForAwait(s, assistantId, Reverse(evs))

Consume(s, assistantId, evs) == ForAwait(s, assistantId, evs)

\* A release on the normal end only (no finally).
ReleaseLock_onDoneOnly(exit) == IF exit = "done" THEN "released" ELSE "locked"

\* finally { reader.releaseLock() }: whichever way the try block is left (the
\* read gave done, an exception, the consumer left its loop).
ReleaseLock(exit) == "released"

\* The turn of DecoderSpec: its user message and placeholder are committed,
\* its request was answered with a body.
StreamingTurn ==
    [pc |-> "streaming", assistantId |-> generateId(1), view |-> 1,
     request |-> RequestBody(Null, "a", <<>>),
     log |-> <<>>, snap |-> None, outcome |-> "none"]
CommittedStore == Commit(initialState, generateId(0), generateId(1), "a", <<>>)

\* One pass of the while loop: a read that hands over a chunk, the split, and
\* the for loop with its yields, each dispatched by onNew's loop body. An
\* exception in the for loop, or in the loop body of the consumer, leaves the
\* generator through its finally and fails the turn.
DecRead ==
    /\ reader = "locked"
    /\ consumed < Len(stream)
    /\ \E n \in 1..Min(MaxChunk, Len(stream) - consumed) :
        LET text == buffer \o SubSeq(stream, consumed + 1, consumed + n)
            pieces == Split(text)
            r == RunLines(SubSeq(pieces, 1, Len(pieces) - 1))
            c == Consume(store, turns[1].assistantId, r.yield)
            failure == IF c.thrown THEN "Error: Cannot read properties of null"
                       ELSE "Error: Unexpected token"
        IN /\ consumed' = consumed + n
           /\ buffer' = NextBuffer(pieces)
           /\ yielded' = yielded \o c.log
           /\ IF c.thrown \/ r.throws
              THEN /\ reader' = ReleaseLock(IF c.thrown THEN "return" ELSE "error")
                   /\ store' = setRunning(
                                  appendToAssistant(c.store, turns[1].assistantId, failure),
                                  FALSE)
                   /\ abortRef' = 0
                   /\ turns' = [turns EXCEPT ![1].log = @ \o c.log, ![1].pc = "ended",
                                             ![1].outcome = "failed"]
                   /\ last' = [op |-> IF c.thrown THEN "decConsumerThrow" ELSE "decThrow",
                               straddled |-> buffer # <<>> /\ Len(pieces) > 1]
              ELSE /\ reader' = "locked"
                   /\ store' = c.store
                   /\ turns' = [turns EXCEPT ![1].log = @ \o c.log]
                   /\ last' = [op |-> "decRead",
                               straddled |-> buffer # <<>> /\ Len(pieces) > 1]
                   /\ UNCHANGED abortRef
    /\ UNCHANGED <<messageIdCounter, steps, interrupts, route, view, mounted, loads,
                   acts, env, stream>>

\* reader.read() gives done: break, then finally { reader.releaseLock() }; the
\* for-await loop of onNew ends, its finally runs.
DecEnd ==
    /\ reader = "locked"
    /\ consumed = Len(stream)
    /\ reader' = ReleaseLock("done")
    /\ LET c == Consume(store, turns[1].assistantId, RunLines(AtEnd(buffer)).yield)
       IN /\ yielded' = yielded \o c.log
          /\ Finalize(1, c.store, "completed")
    /\ last' = [op |-> "decEnd"]
    /\ UNCHANGED <<messageIdCounter, steps, interrupts, route, view, mounted, loads,
                   acts, env, stream, consumed, buffer>>

\* reader.read() rejects, with a network error or with the AbortError of an
\* aborted request: finally { reader.releaseLock() }, then onNew's catch and
\* finally.
DecReadError ==
    /\ reader = "locked"
    /\ reader' = ReleaseLock("error")
    /\ \E aborted \in BOOLEAN :
        /\ IF aborted THEN CatchAbort(1) ELSE Fail(1, "network error")
        /\ last' = [op |-> "decReadError", aborted |-> aborted]
    /\ UNCHANGED <<messageIdCounter, steps, interrupts, route, view, mounted, loads,
                   acts, env, stream, consumed, buffer, yielded>>

DecoderInit ==
    /\ store = CommittedStore
    /\ messageIdCounter = 2
    /\ last = [op |-> "init"]
    /\ steps = 0
    /\ turns = <<StreamingTurn>>
    /\ abortRef = 1
    /\ interrupts = 0
    /\ route = Null
    /\ view = 1
    /\ mounted = TRUE
    /\ loads = {}
    /\ acts = 0
    /\ env = "decoder"
    /\ stream \in Streams
    /\ consumed = 0
    /\ buffer = <<>>
    /\ yielded = <<>>
    /\ reader = "locked"

DecoderNext == DecRead \/ DecEnd \/ DecReadError

DecoderSpec == DecoderInit /\ [][DecoderNext]_vars

\* C2: every assistant message created by addAssistantPlaceholder and changed
\* only through appendToAssistant, appendThinking, addToolCall and
\* updateToolResult holds at most one Thinking segment, and that one is at
\* position 0 (index 1 here).
C2_ThinkingOnceAndFirst ==
    \A i \in 1..Len(store.messages) :
        LET m == store.messages[i] IN
        (IsGenerated(m.id) /\ m.role = "assistant")
            => ThinkingIndexes(m.content) \subseteq {1}

\* appendThinking has just put a new Thinking segment ahead of streamed text.
C2_Witness ==
    /\ last.op = "appendThinking"
    /\ ResolvesToAssistant(store.messages, last.id)
    /\ LET c == MessageOf(store.messages, last.id).content IN
          /\ Len(c) >= 2
          /\ c[1] = ThinkingPart(last.text)
          /\ c[2].type = "text"

\* C27: appendToAssistant on an assistant message extends the last segment in
\* place, the number of segments unchanged, exactly when the last segment is a
\* Text segment; otherwise it appends one Text segment holding the text and
\* changes no segment that was there. Nothing else in the store changes.
C27_AppendExtendsOnlyTrailingText ==
    [][(/\ last'.op = "appendToAssistant"
        /\ ResolvesToAssistant(store.messages, last'.id)) =>
          LET i == FindMessage(store.messages, last'.id)
              c == store.messages[i].content
              c2 == store'.messages[i].content
              n == Len(c)
          IN /\ store' = [store EXCEPT !.messages[i].content = c2]
             /\ IF n > 0 /\ c[n].type = "text"
                THEN /\ Len(c2) = n
                     /\ c2[n] = TextPart(c[n].text \o last'.text)
                     /\ \A k \in 1..(n - 1) : c2[k] = c[k]
                ELSE /\ Len(c2) = n + 1
                     /\ c2[n + 1] = TextPart(last'.text)
                     /\ \A k \in 1..n : c2[k] = c[k]]_vars

\* Text appended after a tool call that follows text: a third segment.
C27_Witness ==
    /\ last.op = "appendToAssistant"
    /\ ResolvesToAssistant(store.messages, last.id)
    /\ LET c == MessageOf(store.messages, last.id).content IN
          /\ Len(c) = 3
          /\ c[1].type = "text"
          /\ c[2].type = "tool-call"
          /\ c[3] = TextPart(last.text)

IsImageAttachment(a) == a.type = "image"

\* C28: addUserMessage(text, attachments) appends at the end of the list one
\* user message whose content is one Image segment per image attachment, in
\* attachment order, then exactly one Text segment holding the text (also when
\* the text is empty); other attachments give no segment; the id returned is
\* the id of the appended message.
C28_UserMessageImagesThenText ==
    [][last'.op = "addUserMessage" =>
          LET images == SelectSeq(last'.attachments, IsImageAttachment)
              n == Len(store.messages)
              m == store'.messages[n + 1]
          IN /\ Len(store'.messages) = n + 1
             /\ SubSeq(store'.messages, 1, n) = store.messages
             /\ m.id = last'.id /\ m.role = "user"
             /\ Len(m.content) = Len(images) + 1
             /\ \A k \in 1..Len(images) : m.content[k] = ImagePart(images[k].image)
             /\ m.content[Len(images) + 1] = TextPart(last'.text)
             /\ store'.sessionId = store.sessionId
             /\ store'.isRunning = store.isRunning
             /\ store'.hasMoreHistory = store.hasMoreHistory]_vars

\* An empty text with a file and two images: the two images, then an empty
\* Text segment.
C28_Witness ==
    /\ last.op = "addUserMessage"
    /\ last.text = ""
    /\ last.attachments = <<FileAtt("f1"), ImageAtt("i2"), ImageAtt("i1")>>
    /\ store.messages[Len(store.messages)].content =
          <<ImagePart("i2"), ImagePart("i1"), TextPart("")>>

\* C29: loadSession with a total supplied sets hasMoreHistory to (totalCount >
\* number of messages) and totalMessageCount to totalCount, for every total
\* from 0 on; sessionId and messages are installed in the same step and
\* isRunning is left alone.
C29_LoadSessionWithTotal ==
    [][(last'.op = "loadSession" /\ last'.totalCount # None) =>
          store' = [sessionId |-> last'.sessionId,
                    messages |-> last'.messages,
                    isRunning |-> store.isRunning,
                    totalMessageCount |-> last'.totalCount[1],
                    hasMoreHistory |-> last'.totalCount[1] > Len(last'.messages)]]_vars

\* A history of one message loaded with a total of 0 while a turn runs.
C29_Witness ==
    /\ last.op = "loadSession"
    /\ last.totalCount = Some(0)
    /\ Len(last.messages) = 1
    /\ store.isRunning
    /\ store.totalMessageCount = 0
    /\ ~store.hasMoreHistory

\* C30: setMessages(list) replaces the message sequence by the list in one
\* step, sets totalMessageCount to its length and leaves sessionId, isRunning
\* and hasMoreHistory unchanged.
C30_SetMessagesReplaces ==
    [][last'.op = "setMessages" =>
          store' = [sessionId |-> store.sessionId,
                    messages |-> last'.messages,
                    isRunning |-> store.isRunning,
                    totalMessageCount |-> Len(last'.messages),
                    hasMoreHistory |-> store.hasMoreHistory]]_vars

\* A loaded history of two messages (total 3, more to fetch) cut to its first
\* message while a turn runs.
C30_Witness ==
    /\ last.op = "setMessages"
    /\ Len(last.messages) = 1
    /\ store.messages = last.messages
    /\ store.totalMessageCount = 1
    /\ store.sessionId = "s1"
    /\ store.isRunning
    /\ store.hasMoreHistory

\* C38: in every reachable state hasMoreHistory equals (totalMessageCount >
\* number of messages).
C38_HasMoreMatchesCount ==
    store.hasMoreHistory = (store.totalMessageCount > Len(store.messages))

\* A sequence with its j-th member taken out.
Without(q, j) == SubSeq(q, 1, j - 1) \o SubSeq(q, j + 1, Len(q))

\* C40: appendToAssistant, appendThinking, addToolCall and updateToolResult
\* called with message id m change at most the content of the message with id
\* m: the other messages, the order and number of messages and the four other
\* state fields are unchanged; in the target message either one segment is
\* changed in place, or one segment is added, and the other segments keep
\* their content and their order.
C40_ContentActionsFrame ==
    [][last'.op \in {"appendToAssistant", "appendThinking", "addToolCall",
                     "updateToolResult"} =>
          /\ [store' EXCEPT !.messages = <<>>] = [store EXCEPT !.messages = <<>>]
          /\ Len(store'.messages) = Len(store.messages)
          /\ \A i \in 1..Len(store.messages) :
                LET m == store.messages[i]
                    m2 == store'.messages[i]
                IN /\ m2.id = m.id /\ m2.role = m.role
                   /\ i # FindMessage(store.messages, last'.id) => m2 = m
                   /\ \/ /\ Len(m2.content) = Len(m.content)
                         /\ Cardinality({k \in 1..Len(m.content) :
                                            m2.content[k] # m.content[k]}) <= 1
                      \/ /\ Len(m2.content) = Len(m.content) + 1
                         /\ \E j \in 1..Len(m2.content) :
                               Without(m2.content, j) = m.content]_vars

\* A result written into the second of two tool calls that follow a text.
C40_Witness ==
    /\ last.op = "updateToolResult"
    /\ last.toolCallId = "k2"
    /\ ResolvesToAssistant(store.messages, last.id)
    /\ LET c == MessageOf(store.messages, last.id).content IN
          /\ Len(c) = 2
          /\ c[1] = ToolCallPart(ToolCall("k1"))
          /\ c[2].type = "tool-call" /\ c[2].toolCallId = "k2"
          /\ c[2].result = Some("r")

\* C4: updateToolResult with a toolCallId no ToolCall segment of the target
\* message carries, or with a message id that is not in the list, leaves the
\* whole store state unchanged.
C4_UnknownToolResultNoOp ==
    [][(/\ last'.op = "updateToolResult"
        /\ \/ ~Resolves(store.messages, last'.id)
           \/ ~HasToolCall(MessageOf(store.messages, last'.id).content,
                           last'.toolCallId))
       => store' = store]_vars

\* updateToolResult has run against a message that holds a tool call, but not
\* the one named.
C4_Witness ==
    /\ last.op = "updateToolResult"
    /\ Resolves(store.messages, last.id)
    /\ LET c == MessageOf(store.messages, last.id).content IN
          /\ \E i \in 1..Len(c) : c[i].type = "tool-call"
          /\ ~HasToolCall(c, last.toolCallId)

\* C5: loadSession(id, msgs) without a total count yields messages = msgs,
\* sessionId = id, hasMoreHistory = false and totalMessageCount = len(msgs),
\* from any store state.
C5_LoadSessionRoundTrip ==
    (last.op = "loadSession" /\ last.totalCount = None)
        => /\ store.messages = last.messages
           /\ store.sessionId = last.sessionId
           /\ store.hasMoreHistory = FALSE
           /\ store.totalMessageCount = Len(last.messages)

\* A two-message history has been installed without a total count.
C5_Witness ==
    /\ last.op = "loadSession"
    /\ last.totalCount = None
    /\ Len(last.messages) = 2
    /\ store.messages = last.messages

\* C9: appendToAssistant, appendThinking and addToolCall with an id that
\* resolves to no message, or to a user message, leave the whole store state
\* unchanged.
C9_NotAssistantNoOp ==
    [][(/\ last'.op \in {"appendToAssistant", "appendThinking", "addToolCall"}
        /\ ~ResolvesToAssistant(store.messages, last'.id))
       => store' = store]_vars

\* addToolCall has run against a user message.
C9_Witness ==
    /\ last.op = "addToolCall"
    /\ Resolves(store.messages, last.id)
    /\ MessageOf(store.messages, last.id).role = "user"

\* -------------------------------------------------------- turn-level claims
RECURSIVE TextOf(_)
\* The payloads of a sequence of events, concatenated in order.
TextOf(evs) == IF evs = <<>> THEN "" ELSE Head(evs).text \o TextOf(Tail(evs))

IsTextEv(ev) == ev.json = "object" /\ ev.type \in {"text-delta", "text"}
IsThinkingEv(ev) == ev.json = "object" /\ ev.type = "thinking-delta"
OnlyEvents(log, Kind(_)) == \A i \in 1..Len(log) : Kind(log[i])
IsTextOrThinkingEv(ev) == IsTextEv(ev) \/ IsThinkingEv(ev)

\* The placeholder of turn t is still in the list and the turn has not failed
\* (a failure adds its own text).
Undisturbed(t) ==
    /\ turns[t].outcome # "failed"
    /\ Resolves(store.messages, turns[t].assistantId)
PlaceholderContent(t) == MessageOf(store.messages, turns[t].assistantId).content

\* C1: after text-delta / text events s1..sn, and no other event, dispatched to
\* a fresh placeholder, the placeholder holds exactly one segment, a Text whose
\* text is s1 + ... + sn in arrival order.
C1_TextDeltasConcatenate ==
    \A t \in 1..Len(turns) :
        (/\ Undisturbed(t)
         /\ Len(turns[t].log) >= 1
         /\ OnlyEvents(turns[t].log, IsTextEv))
        => PlaceholderContent(t) = <<TextPart(TextOf(turns[t].log))>>

\* Three text events with different payloads and both event types were applied.
C1_Witness ==
    \E t \in 1..Len(turns) :
        /\ Undisturbed(t)
        /\ turns[t].log = <<TextDelta("a"), TextDelta("b"), Ev("text", "a", "", None)>>
        /\ PlaceholderContent(t) = <<TextPart("aba")>>

\* C3: for any interleaving of thinking-delta events t1..tm (m >= 1) and text
\* events s1..sn on a fresh placeholder, position 0 is the Thinking segment
\* with text t1 + ... + tm and the text content is s1 + ... + sn, whatever the
\* interleaving.
C3_ThinkingTextInterleaving ==
    \A t \in 1..Len(turns) :
        LET log == turns[t].log
            th == SelectSeq(log, IsThinkingEv)
            tx == SelectSeq(log, IsTextEv)
        IN (/\ Undisturbed(t)
            /\ OnlyEvents(log, IsTextOrThinkingEv)
            /\ Len(th) >= 1)
           => PlaceholderContent(t) =
                 <<ThinkingPart(TextOf(th))>>
                 \o (IF Len(tx) >= 1 THEN <<TextPart(TextOf(tx))>> ELSE <<>>)

\* Text arrived first, then thinking, then text again.
C3_Witness ==
    \E t \in 1..Len(turns) :
        /\ Undisturbed(t)
        /\ turns[t].log = <<TextDelta("a"), ThinkingDelta("b"), TextDelta("b")>>
        /\ PlaceholderContent(t) = <<ThinkingPart("b"), TextPart("ab")>>

\* C8: once the user has invoked cancel while a turn was Streaming, that turn's
\* assistant message keeps the content it had when cancel was invoked (or is
\* gone from the list), whatever the backend still sends; when the turn's
\* completion handler has run, isRunning is false.
C8_CancelFreezesMessage ==
    \A t \in 1..Len(turns) :
        (turns[t].snap # None /\ turns[t].snap[1].pc = "streaming") =>
            /\ ContentOf(store, turns[t].assistantId) \in {None, turns[t].snap[1].content}
            /\ (last.op = "aborted" /\ last.turn = t) => ~store.isRunning

\* C10: between a turn's submit and its end the message list only grows at its
\* tail, ids and order are kept, and the only message whose content changes is
\* the trailing assistant placeholder of the turn; only reset and loadSession
\* (setMessages is not called by this client) remove or replace messages.
C10_AppendOnlyDuringTurn ==
    [][last'.op \notin {"reset", "loadSession"} =>
          /\ Len(store'.messages) >= Len(store.messages)
          /\ \A i \in 1..Len(store.messages) :
                /\ store'.messages[i].id = store.messages[i].id
                /\ store'.messages[i].role = store.messages[i].role
                /\ store'.messages[i].content # store.messages[i].content =>
                      /\ i = Len(store.messages)
                      /\ \E t \in 1..Len(turns) :
                            /\ InFlight(t)
                            /\ turns[t].assistantId = store.messages[i].id]_vars

\* C11: whenever a turn ends (Completed, Cancelled or Failed), the state right
\* after has isRunning = false and the request handle of the view that started
\* the turn cleared; a turn ends in no other way.
C11_FinalizerClearsRunningAndHandle ==
    [][\A t \in 1..Len(turns) :
          (turns[t].pc # "ended" /\ turns'[t].pc = "ended") =>
              /\ ~store'.isRunning
              /\ turns[t].view = view' => abortRef' = 0
              /\ turns'[t].outcome \in {"completed", "cancelled", "failed"}
              /\ last'.op \in {"response", "event", "end", "failure", "aborted"}
              /\ last'.turn = t]_vars

\* One turn has failed, one was cancelled and one has just completed.
C11_Witness ==
    /\ last.op = "end"
    /\ ~store.isRunning
    /\ abortRef = 0
    /\ {turns[t].outcome : t \in 1..Len(turns)} = {"completed", "cancelled", "failed"}

\* C12: a non-success status, or a response without a body, fails the turn
\* before any stream event is dispatched: the placeholder (if the list was not
\* replaced meanwhile) holds exactly one Text segment, the error message; the
\* user message and the placeholder are in the list as before; isRunning is
\* false.
C12_TransportErrorFailsTurn ==
    (last.op = "response" /\ last.result \in {"status", "nobody"}) =>
        LET t == turns[last.turn]
            text == IF last.result = "status" THEN "Error: API error: 500"
                    ELSE "Error: No response body"
        IN /\ t.pc = "ended" /\ t.outcome = "failed"
           /\ t.log = <<>>
           /\ ~store.isRunning
           /\ Resolves(store.messages, t.assistantId) =>
                 LET i == FindMessage(store.messages, t.assistantId) IN
                 /\ i >= 2
                 /\ store.messages[i].content = <<TextPart(text)>>
                 /\ store.messages[i - 1].role = "user"
                 /\ store.messages[i - 1].id = <<"msg", t.assistantId[2] - 1>>

\* The request of a turn has just been answered without a body.
C12_Witness ==
    /\ last.op = "response" /\ last.result = "nobody"
    /\ Resolves(store.messages, turns[last.turn].assistantId)
    /\ MessageOf(store.messages, turns[last.turn].assistantId).content
          = <<TextPart("Error: No response body")>>
    /\ ~store.isRunning

\* C13: cancelling a turn, Sending or Streaming, adds no error text and rolls
\* nothing back: neither onCancel nor the catch and finally of the aborted turn
\* change the message list, and when the turn has ended (as Cancelled) its
\* placeholder holds what it held when cancel was invoked.
C13_CancelKeepsContent ==
    [][/\ last'.op = "cancel" => store' = store
       /\ last'.op = "aborted" =>
             LET t == turns'[last'.turn] IN
             /\ store'.messages = store.messages
             /\ t.pc = "ended" /\ t.outcome = "cancelled"
             /\ t.snap # None
             /\ ContentOf(store', t.assistantId) = t.snap[1].content]_vars

\* One turn was cancelled before its response arrived, another after a
\* text-delta; both have ended, both placeholders follow their user message.
C13_Witness ==
    \E t1, t2 \in 1..Len(turns) :
        /\ turns[t1].outcome = "cancelled" /\ turns[t1].snap[1].pc = "fetching"
        /\ turns[t2].outcome = "cancelled" /\ turns[t2].snap[1].pc = "streaming"
        /\ ContentOf(store, turns[t1].assistantId) = Some(<<>>)
        /\ ContentOf(store, turns[t2].assistantId) = Some(<<TextPart("a")>>)
        /\ \A t \in {t1, t2} :
              LET i == FindMessage(store.messages, turns[t].assistantId) IN
              i >= 2 /\ store.messages[i - 1].role = "user"

\* C14: a submit whose assembled text is blank and that carries no image is
\* dropped: the store, the turns (no request) and the request handle are
\* unchanged; every other submit is accepted and opens a request.
C14_BlankSubmitDropped ==
    [][last'.op = "submit" =>
          LET blank == /\ Blank(AssembleText(last'.text, last'.attachments))
                       /\ \A i \in 1..Len(last'.attachments) :
                             last'.attachments[i].type # "image"
          IN /\ last'.accepted = ~blank
             /\ blank => /\ store' = store
                         /\ turns' = turns
                         /\ abortRef' = abortRef
                         /\ messageIdCounter' = messageIdCounter
             /\ ~blank => /\ Len(turns') = Len(turns) + 1
                          /\ turns'[Len(turns')].pc = "fetching"
                          /\ Len(store'.messages) = Len(store.messages) + 2]_vars

\* After a completed turn, a submit of whitespace alone has been dropped.
C14_Witness ==
    /\ last.op = "submit" /\ ~last.accepted
    /\ last.text = " " /\ last.attachments = <<>>
    /\ Len(turns) = 1 /\ turns[1].pc = "ended"
    /\ Len(store.messages) = 2
    /\ ~store.isRunning

\* C15: when the request of an accepted submit is opened, the store has got the
\* user message, then an empty assistant placeholder, and isRunning = true: the
\* list is the former list followed by exactly these two messages. No other
\* step of a turn adds a message (one placeholder per turn).
C15_CommitBeforeRequest ==
    [][/\ (last'.op = "submit" /\ last'.accepted) =>
             LET n == Len(store.messages)
                 t == turns'[last'.turn]
             IN /\ Len(store'.messages) = n + 2
                /\ SubSeq(store'.messages, 1, n) = store.messages
                /\ store'.messages[n + 1].role = "user"
                /\ LET c == store'.messages[n + 1].content IN
                      /\ c[Len(c)] =
                            TextPart(AssembleText(last'.text, last'.attachments))
                      /\ \A i \in 1..(Len(c) - 1) : c[i].type = "image"
                /\ store'.messages[n + 2] = Message(t.assistantId, "assistant", <<>>)
                /\ store'.messages[n + 1].id # t.assistantId
                /\ store'.isRunning
                /\ t.pc = "fetching"
       /\ last'.op \notin {"submit", "reset", "loadSession"} =>
             Len(store'.messages) = Len(store.messages)]_vars

\* A submit with text, an uploaded file and two images has just been accepted.
C15_Witness ==
    /\ last.op = "submit" /\ last.accepted
    /\ last.text = "a"
    /\ Len(last.attachments) = 3
    /\ Len(store.messages) = 2
    /\ Len(store.messages[1].content) = 3
    /\ store.messages[1].content[3].type = "text"
    /\ store.messages[2].content = <<>>
    /\ store.isRunning

HasDone(log) == \E i \in 1..Len(log) : log[i].json = "object" /\ log[i].type = "done"

\* C17: once a done event has been dispatched for a turn, no event that follows
\* it in the same stream is applied to the store.
C17_NothingAppliedAfterDone ==
    [][\A t \in 1..Len(turns) :
          (HasDone(turns[t].log) /\ last'.op = "event" /\ last'.turn = t)
              => store' = store]_vars

\* The ten event types of the protocol.
EventTypes ==
    {"text-delta", "text", "thinking-delta", "tool-call", "tool-result",
     "session-id", "context", "done", "error", "archive-error"}

\* C18: when the message list was replaced (reset, loadSession) while a turn
\* was Streaming, so that its placeholder id is gone, every event of the ten
\* types dispatched for that turn afterwards leaves the store unchanged and
\* raises nothing.
C18_SupersededTurnEventsNoOp ==
    [][(/\ last'.op = "event"
        /\ last'.event.json = "object" /\ last'.event.type \in EventTypes
        /\ ~Resolves(store.messages, turns[last'.turn].assistantId))
       => /\ store' = store
          /\ turns'[last'.turn].pc = "streaming"]_vars

\* C20: after the user has invoked cancel, isRunning eventually is false,
\* whether or not the interrupt request is ever answered.
C20_CancelEventuallyNotRunning == [](last.op = "cancel" => <>(~store.isRunning))

\* The parts of a request content: a text part and the image parts.
RequestText(text) == [type |-> "text", text |-> text]
RequestImages(images) == [i \in 1..Len(images) |-> [type |-> "image", text |-> images[i].image]]

\* C31 as stated: the request body carries the sessionId held at submit time;
\* its content is a bare string exactly when the submit has no image; with at
\* least one image it is the sequence of the text part followed by one image
\* part per image attachment, in attachment order.
C31_RequestContentAsStated ==
    [][(last'.op = "submit" /\ last'.accepted) =>
          LET images == SelectSeq(last'.attachments, IsImage)
              text == AssembleText(last'.text, last'.attachments)
              req == turns'[last'.turn].request
          IN /\ req.sessionId = store.sessionId
             /\ IF Len(images) = 0
                THEN req.content.kind = "string" /\ req.content.text = text
                ELSE /\ req.content.kind = "array"
                     /\ req.content.parts = <<RequestText(text)>> \o RequestImages(images)]_vars

\* C31 (amended): as stated, except that with at least one image the sequence
\* starts with the text part only when the text is not blank; with a blank
\* text it holds the image parts alone.
C31_RequestContent ==
    [][(last'.op = "submit" /\ last'.accepted) =>
          LET images == SelectSeq(last'.attachments, IsImage)
              text == AssembleText(last'.text, last'.attachments)
              req == turns'[last'.turn].request
          IN /\ req.sessionId = store.sessionId
             /\ IF Len(images) = 0
                THEN req.content.kind = "string" /\ req.content.text = text
                ELSE /\ req.content.kind = "array"
                     /\ req.content.parts =
                           (IF Blank(text) THEN <<>> ELSE <<RequestText(text)>>)
                           \o RequestImages(images)]_vars

\* An image submitted alone, with a blank text, in a loaded session.
C31_Witness ==
    /\ last.op = "submit" /\ last.accepted
    /\ last.text = " "
    /\ last.attachments = <<ImageAtt("i1")>>
    /\ turns[last.turn].request.sessionId = "s1"
    /\ turns[last.turn].request.content.kind = "array"
    /\ turns[last.turn].request.content.parts = RequestImages(<<ImageAtt("i1")>>)

\* The turn is Sending or Streaming.
Active(t) == turns[t].pc \in {"fetching", "streaming"}
\* The user has stayed in the conversation the page opened on.
NeverNavigated == view = 1

\* C32: with submits issued only while isRunning is false, at most one turn is
\* Sending or Streaming at any time, under every interleaving of submit,
\* stream events, stream end, stream failure and cancel (navigation left out).
C32_AtMostOneTurnInFlight ==
    NeverNavigated => Cardinality({t \in 1..Len(turns) : Active(t)}) <= 1

\* C36: isRunning is true in every state in which some turn is Sending or
\* Streaming; the late setRunning(false) of a cancel never clears it under a
\* later turn (navigation left out).
C36_RunningWhileInFlight ==
    (NeverNavigated /\ \E t \in 1..Len(turns) : Active(t)) => store.isRunning

\* C37: whenever a turn is Sending or Streaming and the composer can be used,
\* the in-flight request handle holds that turn's own abort controller.
C37_HandleHoldsActiveTurn ==
    \A t \in 1..Len(turns) : (mounted /\ Active(t)) => abortRef = t

\* C35: isRunning is set to false exactly once on behalf of a turn: in a run
\* of one turn, once the turn's finalizer has run, no setRunning(false) call
\* follows.
C35_RunningClearedOncePerTurn ==
    [][(NeverNavigated /\ Len(turns) = 1 /\ turns[1].pc = "ended")
          => last'.op # "interrupt"]_vars

\* C33: a transport failure in mid-stream appends a new, separate error Text
\* segment at the end of the assistant placeholder and leaves every segment
\* committed before unchanged, whatever the last of them is.
C33_FailureAppendsSeparateSegment ==
    [][\A t \in 1..Len(turns) :
          (/\ last'.op = "failure" /\ last'.turn = t
           /\ ResolvesToAssistant(store.messages, turns[t].assistantId)) =>
             MessageOf(store'.messages, turns[t].assistantId).content =
                Append(MessageOf(store.messages, turns[t].assistantId).content,
                       TextPart("Error: network error"))]_vars

\* C34: a tool-result for a toolCallId that has no ToolCall segment yet leaves
\* the store unchanged, and is not kept: the tool-call that follows creates
\* its segment without a result, and a segment gets a result only in the
\* dispatch of a tool-result for its toolCallId.
C34_EarlyToolResultDropped ==
    [][\A t \in 1..Len(turns) :
          (/\ last'.op = "event" /\ last'.turn = t
           /\ last'.event.json = "object"
           /\ ResolvesToAssistant(store.messages, turns[t].assistantId)) =>
             LET c == MessageOf(store.messages, turns[t].assistantId).content
                 c2 == MessageOf(store'.messages, turns[t].assistantId).content
                 k == last'.event.toolCallId
             IN /\ (last'.event.type = "tool-result" /\ ~HasToolCall(c, k))
                      => store' = store
                /\ last'.event.type = "tool-call" =>
                      c2 = Append(c, ToolCallPart(ToolCall(k)))
                /\ last'.event.type # "tool-result" =>
                      \A j \in 1..Len(c) :
                         (c[j].type = "tool-call" /\ c[j].result = None)
                            => c2[j] = c[j]]_vars

\* The result for k1 came first and was dropped, the tool call for k1 came
\* next: its segment has no result.
C34_Witness ==
    /\ last.op = "event"
    /\ turns[last.turn].log = <<ToolResultEv("k1", None), ToolCallEv("k1")>>
    /\ MessageOf(store.messages, turns[last.turn].assistantId).content =
          <<ToolCallPart(ToolCall("k1"))>>

\* C39: a frame whose payload is valid JSON but no known StreamEvent (an
\* unknown type, null, a number or a string) changes nothing in the store and
\* neither fails nor ends the turn.
C39_UnknownPayloadIgnored ==
    [][\A t \in 1..Len(turns) :
          (/\ last'.op = "event" /\ last'.turn = t
           /\ (last'.event.json # "object" \/ last'.event.type \notin EventTypes))
          => /\ store' = store
             /\ turns'[t].pc = "streaming"]_vars

IsNotice(ev) == ev.json = "object" /\ ev.type \in {"error", "context", "archive-error"}
HasNotice(log) == \E i \in 1..Len(log) : IsNotice(log[i])

\* C21: dispatching an error, context or archive-error event leaves the store
\* unchanged (isRunning included) and the turn Streaming, with its handle; a
\* text delta that follows one in the same stream is still appended to the
\* turn's assistant message.
C21_NoticesChangeNothing ==
    [][\A t \in 1..Len(turns) :
          (last'.op = "event" /\ last'.turn = t) =>
             /\ IsNotice(last'.event) =>
                    /\ store' = store
                    /\ turns'[t].pc = "streaming" /\ turns'[t].outcome = "none"
                    /\ abortRef' = abortRef
             /\ (/\ HasNotice(turns[t].log)
                 /\ last'.event.json = "object" /\ last'.event.type = "text-delta"
                 /\ ResolvesToAssistant(store.messages, turns[t].assistantId))
                => /\ store' = appendToAssistant(store, turns[t].assistantId,
                                                 last'.event.text)
                   /\ store' # store
                   /\ turns'[t].pc = "streaming"]_vars

\* A text delta has been appended after an error and an archive-error event of
\* the same stream, and the turn is still running.
C21_Witness ==
    /\ last.op = "event"
    /\ turns[last.turn].log = <<Bare("error"), Bare("archive-error"), TextDelta("a")>>
    /\ turns[last.turn].pc = "streaming"
    /\ store.isRunning
    /\ MessageOf(store.messages, turns[last.turn].assistantId).content = <<TextPart("a")>>

\* C25: in every reachable state no assistant message holds two ToolCall
\* segments with the same toolCallId.
C25_ToolCallIdsUnique ==
    \A i \in 1..Len(store.messages) :
        LET c == store.messages[i].content IN
        \A a, b \in 1..Len(c) :
            (/\ c[a].type = "tool-call" /\ c[b].type = "tool-call"
             /\ c[a].toolCallId = c[b].toolCallId) => a = b

\* C26: a tool-call event creates a segment without a result, and a
\* tool-result event for a toolCallId whose segment already has a result
\* changes nothing.
C26_ToolResultSetOnce ==
    [][\A t \in 1..Len(turns) :
          (/\ last'.op = "event" /\ last'.turn = t
           /\ last'.event.json = "object"
           /\ ResolvesToAssistant(store.messages, turns[t].assistantId)) =>
             LET c == MessageOf(store.messages, turns[t].assistantId).content
                 c2 == MessageOf(store'.messages, turns[t].assistantId).content
                 k == FindToolCall(c, last'.event.toolCallId)
             IN /\ last'.event.type = "tool-call" =>
                      /\ Len(c2) = Len(c) + 1
                      /\ c2[Len(c2)].result = None /\ c2[Len(c2)].isError = None
                /\ (/\ last'.event.type = "tool-result"
                    /\ k # 0 /\ c[k].result # None)
                   => store' = store]_vars

\* ----------------------------------------------------------- decoder claims
\* The events of a sequence of lines, each decoded on its own.
RECURSIVE EventsOf(_)
EventsOf(lines) ==
    IF lines = <<>> THEN <<>> ELSE DecodeLine(Head(lines)).yield \o EventsOf(Tail(lines))

\* The lines of a text that a newline ends.
CompleteLines(text) == LET pieces == Split(text) IN SubSeq(pieces, 1, Len(pieces) - 1)

\* C6: the events yielded depend only on the characters read so far, not on how
\* they were cut into chunks: after any reads, they are the events of the
\* complete lines of what was read, each once, in order; a line cut by a chunk
\* boundary is not among them before its newline has been read.
C6_ChunkingIndependent ==
    (reader = "locked" \/ last.op = "decEnd")
        => yielded = EventsOf(CompleteLines(SubSeq(stream, 1, consumed)))

\* A read has completed a line whose beginning came with an earlier chunk, and
\* the line gave an event.
C6_Witness ==
    /\ last.op = "decRead"
    /\ last.straddled
    /\ Len(yielded) >= 2
    /\ yielded[Len(yielded)] = Ev("text", "a", "", None)
    /\ buffer # <<>>

IsMalformed(line) ==
    /\ StartsWith(line, DataPrefix)
    /\ SubSeq(line, Len(DataPrefix) + 1, Len(line)) \notin
          {DoneSentinel, SubSeq(TextLine, 7, Len(TextLine)), SubSeq(NullLine, 7, Len(NullLine))}
WellFormed(line) == ~IsMalformed(line)

\* C7: a `data: ` line whose payload is not JSON (and not [DONE]) yields no
\* event and does not end the iteration: the generator never throws, and at
\* the end of the stream the events are those of the stream without its
\* malformed lines.
C7_MalformedFrameDropped ==
    /\ last.op # "decThrow"
    /\ last.op = "decEnd" =>
          yielded = EventsOf(SelectSeq(CompleteLines(stream), WellFormed))

\* `data: not-json` between two valid frames: exactly the two events.
C7_Witness ==
    /\ last.op = "decEnd"
    /\ stream = Terminated(<<TextLine, BadLine, DoneLine>>)
    /\ yielded = <<Ev("text", "a", "", None), Bare("done")>>

\* How many members of a sequence equal x.
Count(q, x) == Cardinality({i \in 1..Len(q) : q[i] = x})

\* C22: a line that is exactly `data: [DONE]` yields one synthetic done event:
\* it is not parsed as JSON (which would drop it as malformed). The done events
\* yielded are as many as the [DONE] lines read.
C22_DoneSentinelYieldsDone ==
    /\ DecodeLine(DoneLine) = [yield |-> <<Bare("done")>>, throws |-> FALSE]
    /\ (reader = "locked" \/ last.op = "decEnd")
          => Count(yielded, Bare("done")) =
                Count(CompleteLines(SubSeq(stream, 1, consumed)), DoneLine)

\* Two [DONE] lines around a malformed frame gave two done events.
C22_Witness ==
    /\ last.op = "decRead"
    /\ consumed = Len(stream)
    /\ stream = Terminated(<<DoneLine, BadLine, DoneLine>>)
    /\ yielded = <<Bare("done"), Bare("done")>>

\* C23: what is left in the buffer when the stream ends, without a newline,
\* yields no event, also when it is a whole valid frame or `data: [DONE]`: the
\* end of the stream yields nothing and changes no message, and the events of
\* the whole stream are those of its newline-terminated lines.
C23_UnterminatedTailDiscarded ==
    [][last'.op = "decEnd" =>
          /\ yielded' = yielded
          /\ store'.messages = store.messages
          /\ yielded' = EventsOf(CompleteLines(stream'))
          /\ turns'[1].outcome = "completed"]_vars

\* The stream ended on an unterminated valid frame that gave nothing.
C23_Witness ==
    /\ last.op = "decEnd"
    /\ stream = Terminated(<<DoneLine>>) \o TextLine
    /\ buffer = TextLine
    /\ yielded = <<Bare("done")>>
    /\ MessageOf(store.messages, turns[1].assistantId).content = <<>>

IsDataLine(line) == StartsWith(line, DataPrefix)

\* C24: a complete line that does not begin with `data: ` yields no event and
\* raises nothing: the events yielded are those of the lines read so far with
\* every such line removed.
C24_NonDataLinesIgnored ==
    /\ last.op # "decThrow"
    /\ (reader = "locked" \/ last.op = "decEnd")
          => yielded = EventsOf(SelectSeq(CompleteLines(SubSeq(stream, 1, consumed)),
                                          IsDataLine))

\* A comment line and an empty line around a valid frame: one event.
C24_Witness ==
    /\ last.op = "decEnd"
    /\ stream = Terminated(<<CommentLine, TextLine, EmptyLine>>)
    /\ yielded = <<Ev("text", "a", "", None)>>

\* C16: the store operations of a turn follow the order in which the events
\* are decoded: the events dispatched are the events of the complete lines
\* read so far, each once and in stream order (up to an event whose dispatch
\* throws), and the message list is the result of dispatching them one by one
\* in that order.
C16_DispatchInDecodeOrder ==
    LET decoded == EventsOf(CompleteLines(SubSeq(stream, 1, consumed)))
        ref == ForAwait(CommittedStore, turns[1].assistantId, decoded)
    IN /\ turns[1].log = ref.log
       /\ yielded = turns[1].log
       /\ turns[1].outcome # "failed" => store.messages = ref.store.messages

\* Text, [DONE] and text again were decoded and dispatched, in this order.
C16_Witness ==
    /\ stream = Terminated(<<TextLine, DoneLine, TextLine>>)
    /\ consumed = Len(stream)
    /\ turns[1].log = <<Ev("text", "a", "", None), Bare("done"), Ev("text", "a", "", None)>>
    /\ MessageOf(store.messages, turns[1].assistantId).content = <<TextPart("aa")>>

\* C19: readSSEStream releases the reader on every exit: the end of the stream,
\* a read that rejects (a network error, an abort), and the consumer leaving
\* its loop by an exception; once released, nothing more is read or yielded.
C19_ReaderReleasedOnEveryExit ==
    [][/\ last'.op \in {"decEnd", "decReadError", "decConsumerThrow", "decThrow"}
            => reader' = "released"
       /\ turns'[1].pc = "ended" => reader' = "released"
       /\ reader = "released" =>
             /\ reader' = "released"
             /\ consumed' = consumed
             /\ yielded' = yielded]_vars

\* The dispatch of a null event threw while part of the stream was unread.
C19_Witness ==
    /\ last.op = "decConsumerThrow"
    /\ reader = "released"
    /\ consumed < Len(stream)
    /\ yielded[Len(yielded)] = JsonNull
    /\ turns[1].outcome = "failed"

====
